---------------------------- MODULE Spec2Model ----------------------------
(***************************************************************************)
(* A model of the uplink ingestion core of the RF analytics backend:       *)
(* the sliding-window rate limiter, the webhook handler, the event         *)
(* classifier and dispatcher, the uplink processor with its best-receiver  *)
(* selection, the RF score function and the transactional store.           *)
(*                                                                         *)
(* Numbers.  A JavaScript number is a record [k, v]:                       *)
(*   k = "fin"  a finite number, v its value in thousandths (0.245 = 245)  *)
(*   k = "inf"  +Infinity (v = 1) or -Infinity (v = -1)                    *)
(*   k = "nan"  NaN                                                        *)
(*   k = "none" a value that is not of type number (missing, string, ...)  *)
(* Arithmetic on finite values is exact decimal arithmetic; the inputs of  *)
(* the model are chosen so that IEEE rounding noise decides no comparison. *)
(* Time is in milliseconds.                                                *)
(***************************************************************************)
EXTENDS Integers, Sequences, FiniteSets, TLC

(***************************************************************************)
(* Bounds of the model.                                                    *)
(***************************************************************************)
\* RateLimiter constructor arguments (maxRequests, windowMs), chosen small
MaxRequests == 2
WindowMs == 1000
\* the clock advances in steps of TickMs up to MaxTime
TickMs == 500
MaxTime == 2000
\* longest rxInfo list of a payload
MaxRx == 3

Fin(v) == [k |-> "fin", v |-> v]
PosInf == [k |-> "inf", v |-> 1]
NegInf == [k |-> "inf", v |-> -1]
NaN == [k |-> "nan", v |-> 0]
NotNum == [k |-> "none", v |-> 0]

Abs(x) == IF x < 0 THEN -x ELSE x
Sign(x) == IF x < 0 THEN -1 ELSE IF x > 0 THEN 1 ELSE 0

\* typeof x === 'number' && !isNaN(x): Infinity and -Infinity pass
IsValidNumber(x) == x.k \in {"fin", "inf"}

\* a > b on JavaScript numbers (false whenever a NaN is involved)
JsGt(a, b) ==
  IF a.k \notin {"fin", "inf"} \/ b.k \notin {"fin", "inf"} THEN FALSE
  ELSE IF a.k = "inf" /\ b.k = "inf" THEN a.v > b.v
  ELSE IF a.k = "inf" THEN a.v > 0
  ELSE IF b.k = "inf" THEN b.v < 0
  ELSE a.v > b.v

\* a === b on JavaScript numbers (NaN is not equal to itself)
JsEq(a, b) == a.k \in {"fin", "inf"} /\ a.k = b.k /\ a.v = b.v

\* (snr * 2) + (rssi / 10), in ten-thousandths when finite
JsLinear(snr, rssi) ==
  IF snr.k = "nan" \/ rssi.k = "nan" THEN [k |-> "nan", v |-> 0]
  ELSE IF snr.k = "inf" /\ rssi.k = "inf"
       THEN IF snr.v = rssi.v THEN [k |-> "inf", v |-> snr.v] ELSE [k |-> "nan", v |-> 0]
  ELSE IF snr.k = "inf" THEN [k |-> "inf", v |-> snr.v]
  ELSE IF rssi.k = "inf" THEN [k |-> "inf", v |-> rssi.v]
  ELSE [k |-> "fin", v |-> 20 * snr.v + rssi.v]

\* Math.round of a value given in ten-thousandths: floor(x + 0.5), so a
\* tie goes towards +Infinity; the result is a number in thousandths
MathRound(x) ==
  IF x.k = "fin" THEN [k |-> "fin", v |-> 1000 * ((x.v + 5000) \div 10000)]
  ELSE x

\* utils/rfScore: throws on a non-number or NaN, else Math.round(snr*2 + rssi/10)
calculateRfScore(snr, rssi) ==
  IF snr.k \notin {"fin", "inf"} THEN [threw |-> TRUE, score |-> NaN]
  ELSE IF rssi.k \notin {"fin", "inf"} THEN [threw |-> TRUE, score |-> NaN]
  ELSE [threw |-> FALSE, score |-> MathRound(JsLinear(snr, rssi))]

\* a >= b and a <= b on JavaScript numbers
JsGe(a, b) == JsGt(a, b) \/ JsEq(a, b)
JsLe(a, b) == JsGt(b, a) \/ JsEq(a, b)

\* the threshold rule of the health services: 100 / 70 / 40
calculateHealthScore(avgSnr, avgRssi) ==
  IF JsGt(avgSnr, Fin(7000)) /\ JsGt(avgRssi, Fin(-90000)) THEN Fin(100000)
  ELSE IF JsGe(avgSnr, Fin(3000)) /\ JsLe(avgSnr, Fin(7000)) THEN Fin(70000)
  ELSE Fin(40000)

(***************************************************************************)
(* utils/connectivity.js.                                                  *)
(***************************************************************************)
EXPECTED_UPLINK_INTERVAL_MS == 900000
OFFLINE_THRESHOLD_MS == 5 * EXPECTED_UPLINK_INTERVAL_MS

\* a lastSeenTimestamp: absent (null, undefined, ""), a date at ms
\* milliseconds, or a string new Date() cannot parse
NoLastSeen == [k |-> "none", ms |-> 0]
LastSeenAt(ms) == [k |-> "date", ms |-> ms]
LastSeenUnparsed == [k |-> "bad", ms |-> 0]

\* new Date(lastSeenTimestamp).getTime(): NaN for an invalid date
getTime(lastSeenTimestamp) ==
  IF lastSeenTimestamp.k = "date" THEN Fin(lastSeenTimestamp.ms) ELSE NaN

\* a - b on JavaScript numbers, for finite a
JsMinus(a, b) == IF b.k = "fin" THEN Fin(a.v - b.v) ELSE NaN

\* a classification that takes a gap equal to the threshold as OFFLINE
calculateUplinkContinuityStrict(lastSeenTimestamp, t) ==
  IF lastSeenTimestamp.k = "none" THEN "UNKNOWN"
  ELSE LET timeSinceLastUplink == JsMinus(Fin(t), getTime(lastSeenTimestamp))
       IN IF JsGe(timeSinceLastUplink, Fin(OFFLINE_THRESHOLD_MS)) THEN "OFFLINE" ELSE "ONLINE"

\* calculateUplinkContinuity(lastSeenTimestamp) called when new Date().getTime() = t
calculateUplinkContinuity(lastSeenTimestamp, t) ==
  IF lastSeenTimestamp.k = "none" THEN "UNKNOWN"
  ELSE LET timeSinceLastUplink == JsMinus(Fin(t), getTime(lastSeenTimestamp))
       IN IF JsGt(timeSinceLastUplink, Fin(OFFLINE_THRESHOLD_MS)) THEN "OFFLINE" ELSE "ONLINE"

(***************************************************************************)
(* utils/stability.js.                                                     *)
(***************************************************************************)
\* values.reduce((sum, val) => sum + val, 0)
RECURSIVE reduceSum(_)
reduceSum(values) ==
  IF Len(values) = 0 THEN 0 ELSE Head(values) + reduceSum(Tail(values))

\* the sum over values of (val - mean)^2 with mean = sum / n, times n^2
RECURSIVE reduceSquares(_, _, _)
reduceSquares(values, sum, n) ==
  IF Len(values) = 0 THEN 0
  ELSE (n * Head(values) - sum) * (n * Head(values) - sum)
         + reduceSquares(Tail(values), sum, n)

\* a deviation that divides by n - 1 (the sample standard deviation)
calculateStdDevSample(values) ==
  IF Len(values) = 0 THEN [num |-> 0, den |-> 1]
  ELSE LET n == Len(values)
       IN [num |-> reduceSquares(values, reduceSum(values), n), den |-> n * n * (n - 1)]

\* calculateStdDev(values): the square root of num / den
calculateStdDev(values) ==
  IF Len(values) = 0 THEN [num |-> 0, den |-> 1]
  ELSE LET n == Len(values)
       IN [num |-> reduceSquares(values, reduceSum(values), n), den |-> n * n * n]

\* stddev <= c for c >= 0
StdDevLe(stddev, c) == stddev.num <= c * c * stddev.den

calculateStabilityIndex(snrValues) ==
  IF Len(snrValues) = 0 THEN "UNKNOWN"
  ELSE LET stddev == calculateStdDev(snrValues)
       IN IF StdDevLe(stddev, 2) THEN "STABLE"
          ELSE IF StdDevLe(stddev, 5) THEN "UNSTABLE"
          ELSE "VERY_UNSTABLE"

(***************************************************************************)
(* Column types of the uplinks table.                                      *)
(***************************************************************************)
\* a finite value in thousandths rounded to hundredths, ties away from
\* zero (PostgreSQL numeric), given back in thousandths
RoundToScale2(v) == Sign(v) * 10 * ((Abs(v) + 5) \div 10)

\* DECIMAL(5,2) accepts a finite value whose rounded magnitude is below 10^3
FitsDecimal52(x) == x.k = "fin" /\ Abs(RoundToScale2(x.v)) < 1000000

\* the value a DECIMAL(5,2) column holds for an accepted number
ToDecimal52(x) == [k |-> "fin", v |-> RoundToScale2(x.v)]

\* INTEGER accepts a finite integral value in the 32-bit range
FitsInteger(x) ==
  x.k = "fin" /\ x.v % 1000 = 0 /\ x.v \div 1000 >= -2147483647 - 1 /\ x.v \div 1000 <= 2147483647

\* ROUND() of PostgreSQL numeric on a value in ten-thousandths: ties away from zero
SqlRound(x) == [k |-> "fin", v |-> 1000 * Sign(x.v) * ((Abs(x.v) + 5000) \div 10000)]

(***************************************************************************)
(* RateLimiter.  requests is the Map identifier -> [timestamps], given as  *)
(* a function whose domain is the set of keys of the Map.                  *)
(***************************************************************************)
\* while (requestTimes.length > 0 && requestTimes[0] < windowStart) shift()
\* a limiter that also drops the timestamp lying exactly on the window start
RECURSIVE dropOldInclusive(_, _)
dropOldInclusive(requestTimes, windowStart) ==
  IF Len(requestTimes) > 0 /\ Head(requestTimes) <= windowStart
  THEN dropOldInclusive(Tail(requestTimes), windowStart)
  ELSE requestTimes

RECURSIVE dropOld(_, _)
dropOld(requestTimes, windowStart) ==
  IF Len(requestTimes) > 0 /\ Head(requestTimes) < windowStart
  THEN dropOld(Tail(requestTimes), windowStart)
  ELSE requestTimes

\* the Map with key id set to list
MapSet(map, id, list) ==
  [i \in DOMAIN map \cup {id} |-> IF i = id THEN list ELSE map[i]]

\* a limiter that shifts the old timestamps of every identity on each call
isAllowedShiftsAll(map, id, t) ==
  LET created == IF id \in DOMAIN map THEN map ELSE MapSet(map, id, <<>>)
      shifted == [i \in DOMAIN created |-> dropOld(created[i], t - WindowMs)]
  IN IF Len(shifted[id]) >= MaxRequests
     THEN [allowed |-> FALSE, map |-> shifted]
     ELSE [allowed |-> TRUE, map |-> MapSet(shifted, id, Append(shifted[id], t))]

\* a limiter that records the rejected calls too
isAllowedRecordsAll(map, id, t) ==
  LET created == IF id \in DOMAIN map THEN map ELSE MapSet(map, id, <<>>)
      requestTimes == dropOld(created[id], t - WindowMs)
  IN [allowed |-> Len(requestTimes) < MaxRequests,
      map |-> MapSet(created, id, Append(requestTimes, t))]

\* isAllowed(identifier) at Date.now() = t: the result and the Map afterwards
isAllowed(map, id, t) ==
  LET created == IF id \in DOMAIN map THEN map ELSE MapSet(map, id, <<>>)
      requestTimes == dropOld(created[id], t - WindowMs)
  IN IF Len(requestTimes) >= MaxRequests
     THEN [allowed |-> FALSE, map |-> MapSet(created, id, requestTimes)]
     ELSE [allowed |-> TRUE, map |-> MapSet(created, id, Append(requestTimes, t))]

\* a getRemaining that shifts the oldest timestamp whatever its age
getRemainingShiftsOne(map, id, t) ==
  IF id \notin DOMAIN map THEN [remaining |-> MaxRequests, map |-> map]
  ELSE LET requestTimes == IF Len(map[id]) > 0 THEN Tail(map[id]) ELSE map[id]
           left == MaxRequests - Len(requestTimes)
       IN [remaining |-> IF left > 0 THEN left ELSE 0,
           map |-> MapSet(map, id, requestTimes)]

\* getRemaining(identifier) at Date.now() = t
getRemaining(map, id, t) ==
  IF id \notin DOMAIN map THEN [remaining |-> MaxRequests, map |-> map]
  ELSE LET requestTimes == dropOld(map[id], t - WindowMs)
           left == MaxRequests - Len(requestTimes)
       IN [remaining |-> IF left > 0 THEN left ELSE 0,
           map |-> MapSet(map, id, requestTimes)]

\* a sweep that drops old timestamps and keeps the emptied identities
cleanupKeepEmpty(map, t) == [i \in DOMAIN map |-> dropOld(map[i], t - WindowMs)]

\* cleanup() at Date.now() = t
cleanup(map, t) ==
  LET kept == {i \in DOMAIN map : Len(dropOld(map[i], t - WindowMs)) > 0}
  IN [i \in kept |-> dropOld(map[i], t - WindowMs)]

(***************************************************************************)
(* Inbound requests.                                                       *)
(***************************************************************************)
\* rxInfo[].time: absent, a string (parseable as a date or not), or a
\* truthy value of another type
NoTime == [k |-> "none", ok |-> FALSE, t |-> 0]
TimeStr(t) == [k |-> "str", ok |-> TRUE, t |-> t]
BadTimeStr == [k |-> "str", ok |-> FALSE, t |-> 0]
OtherTime == [k |-> "other", ok |-> FALSE, t |-> 0]

\* an rxInfo item that is an object; gwStr tells whether gatewayId is a
\* string, and "" stands for a missing or empty gatewayId
Rx(g, rssi, snr, time) ==
  [obj |-> TRUE, gwStr |-> TRUE, gatewayId |-> g, rssi |-> rssi, snr |-> snr, time |-> time]
\* an rxInfo item that is not an object (null, a number, ...)
RxNotObject ==
  [obj |-> FALSE, gwStr |-> FALSE, gatewayId |-> "", rssi |-> NotNum, snr |-> NotNum,
   time |-> NoTime]
\* an rxInfo item whose gatewayId is not a string
RxGwNotString ==
  [obj |-> TRUE, gwStr |-> FALSE, gatewayId |-> "7", rssi |-> Fin(-80000), snr |-> Fin(7000),
   time |-> NoTime]

\* the rxInfo items the model draws from
RxPool ==
  { Rx("g1", Fin(-80000), Fin(5000), TimeStr(100)),
    Rx("g2", Fin(-85000), Fin(9000), NoTime),
    Rx("g3", Fin(-70000), Fin(9000), BadTimeStr),
    Rx("", Fin(-80000), Fin(7000), NoTime),
    Rx("g1", Fin(-80000), PosInf, NoTime),
    Rx("g2", NotNum, Fin(5000), NoTime),
    Rx("g1", Fin(0), Fin(245), OtherTime),
    Rx("g2", Fin(0), Fin(-250), NoTime),
    RxNotObject }

\* the items of the concurrent specification
RxPoolSmall ==
  { Rx("g1", Fin(-80000), Fin(5000), TimeStr(100)),
    Rx("g2", Fin(-85000), Fin(9000), NoTime),
    Rx("g1", Fin(-80000), PosInf, NoTime) }

SeqsUpTo(S, n) == UNION {[1..m -> S] : m \in 0..n}

\* deviceInfo.devEui: k = "str" a string (s = "" when empty), "none"
\* missing, "other" a value that is not a string
DevEui(s) == [k |-> "str", s |-> s]
NoDevEui == [k |-> "none", s |-> ""]
DevEuiNotString == [k |-> "other", s |-> "12"]

\* a field of the body naming the event: absent, a string, or another truthy value
NoField == [k |-> "none", s |-> ""]
StrField(s) == [k |-> "str", s |-> s]
OtherField == [k |-> "other", s |-> "1"]
\* the array ["UP"], whose String() is "UP"
ArrField == [k |-> "other", s |-> "UP"]

\* req.body: isObject is false when no body was parsed; rxKind is
\* "missing", "other" (present, not an array) or "array"
Body(devEui, rxKind, rxInfo) ==
  [isObject |-> TRUE, devEui |-> devEui, rxKind |-> rxKind, rxInfo |-> rxInfo,
   eventType |-> NoField, event |-> NoField, type |-> NoField]
NoBody ==
  [isObject |-> FALSE, devEui |-> NoDevEui, rxKind |-> "missing", rxInfo |-> <<>>,
   eventType |-> NoField, event |-> NoField, type |-> NoField]

\* req.query.event: absent, a string, or an array of strings
NoQuery == [k |-> "none", s |-> "", a |-> <<>>]
QueryStr(s) == [k |-> "str", s |-> s, a |-> <<>>]
QueryArr(a) == [k |-> "arr", s |-> "", a |-> a]

\* the three recognised headers, "" when absent
NoHeaders == [xEventType |-> "", eventType |-> "", xChirpstackEvent |-> ""]

\* req.ip, req.connection.remoteAddress and the x-forwarded-for header
Addr(ip, remote, xff) == [ip |-> ip, remoteAddress |-> remote, xForwardedFor |-> xff]

Request(addr, query, headers, body) ==
  [addr |-> addr, query |-> query, headers |-> headers, body |-> body]

\* bodies that processUplink rejects as a whole
RejectedBodies ==
  { NoBody,
    Body(NoDevEui, "array", <<Rx("g1", Fin(-80000), Fin(5000), NoTime)>>),
    Body(DevEui(""), "array", <<Rx("g1", Fin(-80000), Fin(5000), NoTime)>>),
    Body(DevEuiNotString, "array", <<Rx("g1", Fin(-80000), Fin(5000), NoTime)>>),
    Body(DevEui("d1"), "missing", <<>>),
    Body(DevEui("d1"), "other", <<>>) }

\* uplink deliveries of the sequential specification
UplinkRequests ==
  { Request(Addr("ip1", "", ""), QueryStr("up"), NoHeaders, b) :
      b \in RejectedBodies \cup {Body(DevEui("d1"), "array", rx) : rx \in SeqsUpTo(RxPool, MaxRx)} }

\* deliveries of other event types, and ways of naming the event
OtherRequests ==
  { Request(Addr("ip1", "", ""), QueryStr("UP"), NoHeaders,
            Body(DevEui("d1"), "array", <<Rx("g1", Fin(-80000), Fin(5000), NoTime)>>)),
    Request(Addr("ip1", "", ""), QueryArr(<<"{{event}}", "uplink">>), NoHeaders,
            Body(DevEui("d1"), "array", <<Rx("g2", Fin(-85000), Fin(9000), NoTime)>>)),
    Request(Addr("", "ip2", ""), QueryArr(<<"{{event}}">>),
            [NoHeaders EXCEPT !.xEventType = "Status"], Body(DevEui("d1"), "missing", <<>>)),
    Request(Addr("", "", "ip2"), NoQuery, [NoHeaders EXCEPT !.eventType = "join"],
            Body(DevEui("d2"), "missing", <<>>)),
    Request(Addr("", "", ""), NoQuery, NoHeaders,
            [Body(DevEui("d1"), "missing", <<>>) EXCEPT !.event = StrField("Location")]),
    Request(Addr("ip1", "", ""), NoQuery, NoHeaders,
            [Body(NoDevEui, "missing", <<>>) EXCEPT !.type = OtherField]),
    Request(Addr("ip1", "", ""), NoQuery, NoHeaders, NoBody) }

(***************************************************************************)
(* Event classification (routes/uplink.js).                                *)
(***************************************************************************)
\* String.prototype.toLowerCase on the strings of the model
toLowerCase(s) ==
  CASE s = "UP" -> "up"
    [] s = "Status" -> "status"
    [] s = "Location" -> "location"
    [] OTHER -> s

\* Array.prototype.find(val => val !== '{{event}}'): "" when nothing is found
RECURSIVE findResolved(_)
findResolved(a) ==
  IF Len(a) = 0 THEN ""
  ELSE IF Head(a) # "{{event}}" THEN Head(a)
  ELSE findResolved(Tail(a))

\* detectEventType(req): [k |-> "str", s] a string, [k |-> "other", s] another value
detectEventType(rq) ==
  LET q == rq.query
      fromQuery ==
        IF q.k = "arr" /\ findResolved(q.a) # "" THEN findResolved(q.a)
        ELSE IF q.k = "str" /\ q.s # "" THEN q.s
        ELSE ""
      h == rq.headers
      headerEvent ==
        IF h.xEventType # "" THEN h.xEventType
        ELSE IF h.eventType # "" THEN h.eventType
        ELSE h.xChirpstackEvent
      b == rq.body
      truthy(f) == f.k = "other" \/ (f.k = "str" /\ f.s # "")
      payloadEvent ==
        IF truthy(b.eventType) THEN b.eventType
        ELSE IF truthy(b.event) THEN b.event
        ELSE b.type
  IN IF fromQuery # "" THEN [k |-> "str", s |-> fromQuery]
     ELSE IF headerEvent # "" THEN [k |-> "str", s |-> toLowerCase(headerEvent)]
     ELSE IF b.isObject /\ truthy(payloadEvent)
          THEN IF payloadEvent.k = "str"
               THEN [k |-> "str", s |-> toLowerCase(payloadEvent.s)]
               ELSE payloadEvent
     ELSE [k |-> "str", s |-> "unknown"]

\* the handler's eventType: rawEventType.toLowerCase() or String(rawEventType)
handlerEventType(rq) ==
  LET raw == detectEventType(rq)
  IN IF raw.k = "str" THEN toLowerCase(raw.s) ELSE raw.s

\* the branch dispatchEvent takes for an event type
dispatchTarget(eventType) ==
  LET normalizedType == toLowerCase(eventType)
  IN IF normalizedType \in {"up", "uplink"} THEN "uplink"
     ELSE IF normalizedType \in {"status", "join", "ack", "txack", "log", "location"}
          THEN "other"
     ELSE "unknown"

(***************************************************************************)
(* processUplink, the part before the first store (uplinkService.js).      *)
(***************************************************************************)
\* a payload check that forgets the devEui
payloadRejectedNoDevEui(body) ==
  \/ ~body.isObject
  \/ body.rxKind # "array" \/ Len(body.rxInfo) = 0

\* the whole payload is rejected: not an object, no usable devEui, or no
\* non-empty rxInfo array
payloadRejected(body) ==
  \/ ~body.isObject
  \/ body.devEui.k # "str" \/ body.devEui.s = ""
  \/ body.rxKind # "array" \/ Len(body.rxInfo) = 0

\* the check an rxInfo item has to pass to be pushed on validRxInfo
rxItemValid(rxItem) ==
  /\ rxItem.obj
  /\ rxItem.gwStr /\ rxItem.gatewayId # ""
  /\ IsValidNumber(rxItem.rssi)
  /\ IsValidNumber(rxItem.snr)

\* validRxInfo: the valid items in input order, each with its index
RECURSIVE validateFrom(_, _)
validateFrom(rxInfo, i) ==
  IF i > Len(rxInfo) THEN <<>>
  ELSE IF rxItemValid(rxInfo[i])
       THEN <<[gatewayId |-> rxInfo[i].gatewayId, rssi |-> rxInfo[i].rssi,
               snr |-> rxInfo[i].snr, time |-> rxInfo[i].time, index |-> i]>>
            \o validateFrom(rxInfo, i + 1)
       ELSE validateFrom(rxInfo, i + 1)

validRxInfoOf(body) == validateFrom(body.rxInfo, 1)

\* a reduce that lets a later item of equal snr replace the best
RECURSIVE reduceBestLast(_, _, _)
reduceBestLast(valid, i, best) ==
  IF i > Len(valid) THEN best
  ELSE reduceBestLast(valid, i + 1, IF JsGe(valid[i].snr, best.snr) THEN valid[i] ELSE best)

\* validRxInfo.reduce((best, current) => current.snr > best.snr ? current : best)
RECURSIVE reduceBest(_, _, _)
reduceBest(valid, i, best) ==
  IF i > Len(valid) THEN best
  ELSE reduceBest(valid, i + 1, IF JsGt(valid[i].snr, best.snr) THEN valid[i] ELSE best)

\* a selection that takes the first valid item
bestEntryFirst(valid) == valid[1]

bestEntryOf(valid) == reduceBest(valid, 2, valid[1])

\* a flag that compares the snr alone
isBestBySnrOnly(rxItem, bestEntry) == JsEq(rxItem.snr, bestEntry.snr)

\* isBest of an item: snr === bestSnr && gatewayId === bestEntry.gatewayId
isBestOf(rxItem, bestEntry) ==
  JsEq(rxItem.snr, bestEntry.snr) /\ rxItem.gatewayId = bestEntry.gatewayId

\* a loop that stamps every item with the time of processing
timestampNow(time, t) == t

\* the timestamp of an item processed at time t
timestampOf(time, t) == IF time.k = "str" /\ time.ok THEN time.t ELSE t

(***************************************************************************)
(* State.                                                                  *)
(***************************************************************************)
VARIABLES
  now,        \* Date.now()
  requests,   \* webhookRateLimiter.requests
  admitted,   \* history: per identity, the times of all admitted requests
  refused,    \* history: per identity, when its last request was refused, -1 if it was not
  pc,         \* per request: where its handling stands
  req,        \* per request: the inbound request
  response,   \* per request: what the caller has been sent
  eventType,  \* per request: the handler's eventType
  call,       \* per request: locals of processUplink
  tx,         \* per request: locals of storeUplink and its open transaction
  log,        \* per request: the log entries written while handling it
  escaped,    \* per request: an exception left the route handler
  dbFault,    \* history, per request: a statement failed for a reason outside
              \* the request (connection loss, timeout)
  gateways,   \* committed rows of table gateways, by gateway_id
  devices,    \* committed rows of table devices, by dev_eui
  uplinks,    \* committed rows of table uplinks
  nextId,     \* the BIGSERIAL sequence of uplinks.id
  nextTx,     \* history: number of storeUplink transactions begun
  inUse,      \* pooled connections checked out
  fn          \* the observed call of a utility function: name, arguments, result

vars == <<now, requests, admitted, refused, pc, req, response, eventType, call, tx, log, escaped,
          dbFault, gateways, devices, uplinks, nextId, nextTx, inUse, fn>>

limiterVars == <<requests, admitted>>
dbVars == <<gateways, devices, uplinks, nextId, nextTx, inUse>>

\* request slots
NumReqs == 2
Reqs == 1..NumReqs

Identities == {"ip1", "ip2", "unknown"}

NoResponse ==
  [status |-> 0, sent |-> FALSE, body |-> "none", error |-> "", message |-> "",
   retryAfter |-> 0, headers |-> {}]

NoArgs ==
  [devEui |-> "", gatewayId |-> "", timestamp |-> 0, rssi |-> NotNum, snr |-> NotNum,
   rfScore |-> NotNum, isBest |-> FALSE, index |-> 0]

NoCall == [valid |-> <<>>, i |-> 0]

NoTx ==
  [client |-> FALSE, open |-> FALSE, gwNew |-> FALSE, devNew |-> FALSE, hasRow |-> FALSE,
   id |-> 0, txid |-> 0, began |-> 0, args |-> NoArgs]

NoRequest == Request(Addr("", "", ""), NoQuery, NoHeaders, NoBody)

NoFn == [name |-> "", args |-> <<>>, result |-> <<>>]

Init ==
  /\ now = 0
  /\ requests = <<>>
  /\ admitted = [i \in Identities |-> <<>>]
  /\ refused = [i \in Identities |-> -1]
  /\ pc = [r \in Reqs |-> "idle"]
  /\ req = [r \in Reqs |-> NoRequest]
  /\ response = [r \in Reqs |-> NoResponse]
  /\ eventType = [r \in Reqs |-> ""]
  /\ call = [r \in Reqs |-> NoCall]
  /\ tx = [r \in Reqs |-> NoTx]
  /\ log = [r \in Reqs |-> <<>>]
  /\ escaped = [r \in Reqs |-> FALSE]
  /\ dbFault = [r \in Reqs |-> FALSE]
  /\ gateways = <<>>
  /\ devices = <<>>
  /\ uplinks = {}
  /\ nextId = 1
  /\ nextTx = 1
  /\ inUse = 0
  /\ fn = NoFn

(***************************************************************************)
(* The clock and the sweep timer.                                          *)
(***************************************************************************)
Tick ==
  /\ now + TickMs <= MaxTime
  /\ now' = now + TickMs
  /\ UNCHANGED <<fn, dbFault, requests, admitted, refused, pc, req, response, eventType, call, tx, log, escaped,
                 gateways, devices, uplinks, nextId, nextTx, inUse>>

\* setInterval(() => webhookRateLimiter.cleanup(), ...)
Cleanup ==
  /\ requests' = cleanup(requests, now)
  /\ UNCHANGED <<fn, dbFault, now, admitted, refused, pc, req, response, eventType, call, tx, log, escaped,
                 gateways, devices, uplinks, nextId, nextTx, inUse>>

(***************************************************************************)
(* POST / : middleware and route handler up to the dispatch.               *)
(***************************************************************************)
\* a request of the set S arrives
Receive(r, S) ==
  /\ pc[r] = "idle"
  /\ \E rq \in S : req' = [req EXCEPT ![r] = rq]
  /\ pc' = [pc EXCEPT ![r] = "limit"]
  /\ UNCHANGED <<fn, dbFault, now, requests, admitted, refused, response, eventType, call, tx, log, escaped,
                 gateways, devices, uplinks, nextId, nextTx, inUse>>

\* req.ip || req.connection.remoteAddress || x-forwarded-for || 'unknown'
clientIpOf(addr) ==
  IF addr.ip # "" THEN addr.ip
  ELSE IF addr.remoteAddress # "" THEN addr.remoteAddress
  ELSE IF addr.xForwardedFor # "" THEN addr.xForwardedFor
  ELSE "unknown"

\* Math.ceil(WEBHOOK_RATE_WINDOW_MS / 1000)
retryAfterOf == (WindowMs + 999) \div 1000

\* the response rateLimitMiddleware sends when isAllowed returned false
rejectionResponse(remaining, t) ==
  [status |-> 429, sent |-> TRUE, body |-> "json", error |-> "Too many requests",
   message |-> "Rate limit exceeded", retryAfter |-> retryAfterOf, headers |-> {}]

\* the headers rateLimitMiddleware sets before next()
admissionHeaders(remaining, t) ==
  { <<"X-RateLimit-Limit", MaxRequests>>,
    <<"X-RateLimit-Remaining", remaining>>,
    <<"X-RateLimit-Reset", t + WindowMs>> }

\* a middleware that sends the 429 and goes on to next() all the same
afterLimitNoReturn(allowed) == "handler"

\* where the middleware leaves the request: next() runs the route handler,
\* the return after the 429 ends the request
afterLimit(allowed) == IF allowed THEN "handler" ELSE "rejected"

\* rateLimitMiddleware(req, res, next)
RateLimit(r) ==
  /\ pc[r] = "limit"
  /\ LET clientIp == clientIpOf(req[r].addr)
         res == isAllowed(requests, clientIp, now)
         rem == getRemaining(res.map, clientIp, now)
     IN /\ requests' = rem.map
        /\ pc' = [pc EXCEPT ![r] = afterLimit(res.allowed)]
        /\ refused' = [refused EXCEPT ![clientIp] = IF res.allowed THEN -1 ELSE now]
        /\ IF res.allowed
           THEN /\ admitted' = [admitted EXCEPT ![clientIp] = Append(@, now)]
                /\ response' = [response EXCEPT
                                  ![r].headers = admissionHeaders(rem.remaining, now)]
           ELSE /\ admitted' = admitted
                /\ response' = [response EXCEPT
                                  ![r] = rejectionResponse(rem.remaining, now)]
  /\ UNCHANGED <<fn, dbFault, now, req, eventType, call, tx, log, escaped,
                 gateways, devices, uplinks, nextId, nextTx, inUse>>

\* res.status(200).send()
sendAck(resp) == [resp EXCEPT !.status = 200, !.sent = TRUE, !.body = "empty"]

Ack(r) ==
  /\ pc[r] = "handler"
  /\ response' = [response EXCEPT ![r] = sendAck(@)]
  /\ pc' = [pc EXCEPT ![r] = "classify"]
  /\ UNCHANGED <<fn, dbFault, now, requests, admitted, refused, req, eventType, call, tx, log, escaped,
                 gateways, devices, uplinks, nextId, nextTx, inUse>>

Classify(r) ==
  /\ pc[r] = "classify"
  /\ eventType' = [eventType EXCEPT ![r] = handlerEventType(req[r])]
  /\ pc' = [pc EXCEPT ![r] = "dispatch"]
  /\ UNCHANGED <<fn, dbFault, now, requests, admitted, refused, req, response, call, tx, log, escaped,
                 gateways, devices, uplinks, nextId, nextTx, inUse>>

(***************************************************************************)
(* dispatchEvent and processUplink.                                        *)
(***************************************************************************)
\* a handler without the try/catch: the rejection leaves it unlogged
CaughtNot(r, l) ==
  /\ pc' = [pc EXCEPT ![r] = "done"]
  /\ log' = [log EXCEPT ![r] = l]
  /\ escaped' = [escaped EXCEPT ![r] = TRUE]

\* the catch block of the route handler: the error is logged, nothing else
Caught(r, l) ==
  /\ pc' = [pc EXCEPT ![r] = "done"]
  /\ log' = [log EXCEPT ![r] = Append(l, "error:webhook")]
  /\ escaped' = escaped

\* one warning per rxInfo item that fails validation
RECURSIVE itemWarnings(_, _)
itemWarnings(rxInfo, i) ==
  IF i > Len(rxInfo) THEN <<>>
  ELSE (IF rxItemValid(rxInfo[i]) THEN <<>> ELSE <<"warn:item">>)
       \o itemWarnings(rxInfo, i + 1)

\* the arguments processUplink passes to storeUplink for validRxInfo[i]
storeArgs(body, valid, i, t) ==
  LET rxItem == valid[i]
  IN [devEui |-> body.devEui.s,
      gatewayId |-> rxItem.gatewayId,
      timestamp |-> timestampOf(rxItem.time, t),
      rssi |-> rxItem.rssi,
      snr |-> rxItem.snr,
      rfScore |-> calculateRfScore(rxItem.snr, rxItem.rssi).score,
      isBest |-> isBestOf(rxItem, bestEntryOf(valid)),
      index |-> rxItem.index]

\* one turn of the store loop up to its await: the timestamp, the score,
\* and the call of storeUplink, which awaits a pooled client
EnterStore(r, c, l) ==
  LET rxItem == c.valid[c.i]
      l2 == IF rxItem.time.k = "str" /\ ~rxItem.time.ok
            THEN Append(l, "warn:timestamp") ELSE l
  IN /\ call' = [call EXCEPT ![r] = c]
     /\ IF calculateRfScore(rxItem.snr, rxItem.rssi).threw
        THEN /\ tx' = [tx EXCEPT ![r] = NoTx]
             /\ Caught(r, l2)
        ELSE /\ tx' = [tx EXCEPT ![r] =
                         [NoTx EXCEPT !.args = storeArgs(req[r].body, c.valid, c.i, now)]]
             /\ pc' = [pc EXCEPT ![r] = "getClient"]
             /\ log' = [log EXCEPT ![r] = l2]
             /\ escaped' = escaped

\* storeUplink returned: the loop goes on to the next valid item, or ends
afterStoreSuccess(r, l) ==
  IF call[r].i < Len(call[r].valid)
  THEN EnterStore(r, [call[r] EXCEPT !.i = @ + 1], l)
  ELSE /\ call' = call
       /\ tx' = [tx EXCEPT ![r] = NoTx]
       /\ pc' = [pc EXCEPT ![r] = "done"]
       /\ log' = [log EXCEPT ![r] = l]
       /\ escaped' = escaped

\* a loop that catches the failure of a store and goes on to the next item
afterStoreFailureContinues(r, l) == afterStoreSuccess(r, l)

\* storeUplink threw: nothing in processUplink or dispatchEvent catches, so
\* the loop is left and the exception reaches the route handler
afterStoreFailure(r, l) ==
  /\ call' = call
  /\ tx' = [tx EXCEPT ![r] = NoTx]
  /\ Caught(r, l)

\* dispatchEvent(eventType, req.body, req.ip), up to its first await
Dispatch(r) ==
  /\ pc[r] = "dispatch"
  /\ LET body == req[r].body
         target == dispatchTarget(eventType[r])
         finish(l) == /\ pc' = [pc EXCEPT ![r] = "done"]
                      /\ log' = [log EXCEPT ![r] = l]
                      /\ UNCHANGED <<call, tx, escaped>>
     IN CASE target = "unknown" -> finish(Append(log[r], "info:unknown"))
          [] target = "other" ->
               IF ~body.isObject \/ body.devEui.k # "str" \/ body.devEui.s = ""
               THEN finish(Append(log[r], "warn:payload"))
               ELSE /\ pc' = [pc EXCEPT ![r] = "other"]
                    /\ UNCHANGED <<log, call, tx, escaped>>
          [] target = "uplink" ->
               IF payloadRejected(body)
               THEN finish(Append(log[r], "warn:payload"))
               ELSE LET valid == validRxInfoOf(body)
                        l == log[r] \o itemWarnings(body.rxInfo, 1)
                    IN IF Len(valid) = 0
                       THEN finish(Append(l, "warn:novalid"))
                       ELSE EnterStore(r, [valid |-> valid, i |-> 1], l)
  /\ UNCHANGED <<fn, dbFault, now, requests, admitted, refused, req, response, eventType,
                 gateways, devices, uplinks, nextId, nextTx, inUse>>

(***************************************************************************)
(* storeUplink: one action per awaited statement.  A statement can fail    *)
(* at any time (connection loss, timeout); the INSERT into uplinks always  *)
(* fails when a value does not fit its column.  A transaction that is not  *)
(* committed leaves nothing behind, whether ROLLBACK succeeds or the       *)
(* connection is lost.                                                     *)
(***************************************************************************)
\* another open transaction has inserted gateway g and not yet ended
gatewayInsertPending(r, g) ==
  \E o \in Reqs \ {r} : tx[o].open /\ tx[o].gwNew /\ tx[o].args.gatewayId = g

\* another open transaction has inserted device d and not yet ended
deviceInsertPending(r, d) ==
  \E o \in Reqs \ {r} : tx[o].open /\ tx[o].devNew /\ tx[o].args.devEui = d

\* triggers that take no row lock
rowLockedNever(r, g, d) == FALSE

\* another open transaction holds the row lock the last_seen triggers take
rowLocked(r, g, d) ==
  \E o \in Reqs \ {r} :
    tx[o].open /\ tx[o].hasRow /\ (tx[o].args.gatewayId = g \/ tx[o].args.devEui = d)

\* a table with a unique key on (dev_eui, gateway_id, timestamp)
fitsColumnsUnique(a) ==
  /\ FitsDecimal52(a.rssi) /\ FitsDecimal52(a.snr) /\ FitsInteger(a.rfScore)
  /\ ~\E u \in uplinks :
        u.dev_eui = a.devEui /\ u.gateway_id = a.gatewayId /\ u.timestamp = a.timestamp

\* the values fit the columns rssi, snr DECIMAL(5,2) and rf_score INTEGER
fitsColumns(a) == FitsDecimal52(a.rssi) /\ FitsDecimal52(a.snr) /\ FitsInteger(a.rfScore)

\* the statement of request r fails for a reason outside the request
Faulted(r) == dbFault' = [dbFault EXCEPT ![r] = TRUE]

\* the pool's max: pool.connect() waits while that many clients are out
DB_POOL_MAX == 10

\* const client = await db.getClient()
GetClient(r) ==
  /\ pc[r] = "getClient"
  /\ \/ /\ inUse < DB_POOL_MAX
        /\ tx' = [tx EXCEPT ![r].client = TRUE]
        /\ inUse' = inUse + 1
        /\ pc' = [pc EXCEPT ![r] = "begin"]
        /\ UNCHANGED <<call, log, escaped, dbFault>>
     \/ /\ afterStoreFailure(r, log[r])
        /\ Faulted(r)
        /\ inUse' = inUse
  /\ UNCHANGED <<fn, now, requests, admitted, refused, req, response, eventType,
                 gateways, devices, uplinks, nextId, nextTx>>

\* await client.query('BEGIN')
Begin(r) ==
  /\ pc[r] = "begin"
  /\ \/ /\ tx' = [tx EXCEPT ![r].open = TRUE, ![r].txid = nextTx, ![r].began = now]
        /\ nextTx' = nextTx + 1
        /\ pc' = [pc EXCEPT ![r] = "upsertGateway"]
        /\ dbFault' = dbFault
     \/ /\ pc' = [pc EXCEPT ![r] = "rollback"]
        /\ Faulted(r)
        /\ UNCHANGED <<tx, nextTx>>
  /\ UNCHANGED <<fn, now, requests, admitted, refused, req, response, eventType, call, log, escaped,
                 gateways, devices, uplinks, nextId, inUse>>

\* INSERT INTO gateways ... ON CONFLICT (gateway_id) DO NOTHING
UpsertGateway(r) ==
  /\ pc[r] = "upsertGateway"
  /\ \/ /\ ~gatewayInsertPending(r, tx[r].args.gatewayId)
        /\ tx' = [tx EXCEPT ![r].gwNew = tx[r].args.gatewayId \notin DOMAIN gateways]
        /\ pc' = [pc EXCEPT ![r] = "upsertDevice"]
        /\ dbFault' = dbFault
     \/ /\ pc' = [pc EXCEPT ![r] = "rollback"]
        /\ Faulted(r)
        /\ tx' = tx
  /\ UNCHANGED <<fn, now, requests, admitted, refused, req, response, eventType, call, log, escaped,
                 gateways, devices, uplinks, nextId, nextTx, inUse>>

\* INSERT INTO devices ... ON CONFLICT (dev_eui) DO NOTHING
UpsertDevice(r) ==
  /\ pc[r] = "upsertDevice"
  /\ \/ /\ ~deviceInsertPending(r, tx[r].args.devEui)
        /\ tx' = [tx EXCEPT ![r].devNew = tx[r].args.devEui \notin DOMAIN devices]
        /\ pc' = [pc EXCEPT ![r] = "insert"]
        /\ dbFault' = dbFault
     \/ /\ pc' = [pc EXCEPT ![r] = "rollback"]
        /\ Faulted(r)
        /\ tx' = tx
  /\ UNCHANGED <<fn, now, requests, admitted, refused, req, response, eventType, call, log, escaped,
                 gateways, devices, uplinks, nextId, nextTx, inUse>>

\* INSERT INTO uplinks ..., with the two AFTER INSERT triggers: it is
\* refused when a value does not fit its column, and can fail otherwise
InsertUplink(r) ==
  /\ pc[r] = "insert"
  /\ \/ /\ fitsColumns(tx[r].args)
        /\ ~rowLocked(r, tx[r].args.gatewayId, tx[r].args.devEui)
        /\ tx' = [tx EXCEPT ![r].hasRow = TRUE, ![r].id = nextId]
        /\ nextId' = nextId + 1
        /\ pc' = [pc EXCEPT ![r] = "commit"]
        /\ dbFault' = dbFault
     \/ /\ ~fitsColumns(tx[r].args)
        /\ pc' = [pc EXCEPT ![r] = "rollback"]
        /\ UNCHANGED <<tx, nextId, dbFault>>
     \/ /\ fitsColumns(tx[r].args)
        /\ pc' = [pc EXCEPT ![r] = "rollback"]
        /\ Faulted(r)
        /\ tx' = tx
        /\ nextId' \in {nextId, nextId + 1}
  /\ UNCHANGED <<fn, now, requests, admitted, refused, req, response, eventType, call, log, escaped,
                 gateways, devices, uplinks, nextTx, inUse>>

\* the uplinks row of a transaction; tx, req and index are history
uplinkRow(r, t) ==
  [id |-> t.id, dev_eui |-> t.args.devEui, gateway_id |-> t.args.gatewayId,
   timestamp |-> t.args.timestamp, rssi |-> ToDecimal52(t.args.rssi),
   snr |-> ToDecimal52(t.args.snr), rf_score |-> t.args.rfScore,
   is_best |-> t.args.isBest, tx |-> t.txid, req |-> r, index |-> t.args.index]

\* a trigger that never moves last_seen backwards
parentRowMonotonic(table, key, isNew, t) ==
  [first_seen |-> IF isNew THEN t.began ELSE table[key].first_seen,
   last_seen |-> IF ~isNew /\ table[key].last_seen > t.args.timestamp
                 THEN table[key].last_seen ELSE t.args.timestamp,
   by |-> IF isNew THEN t.txid ELSE table[key].by]

\* the parent row after the transaction: inserted by it (by is history:
\* the transaction that created the row) or refreshed by the trigger
parentRow(table, key, isNew, t) ==
  [first_seen |-> IF isNew THEN t.began ELSE table[key].first_seen,
   last_seen |-> t.args.timestamp,
   by |-> IF isNew THEN t.txid ELSE table[key].by]

\* a store without the gateway upsert
commitGatewaysSkipped(t) == gateways

\* what COMMIT makes visible
commitGateways(t) ==
  MapSet(gateways, t.args.gatewayId, parentRow(gateways, t.args.gatewayId, t.gwNew, t))
commitDevices(t) ==
  MapSet(devices, t.args.devEui, parentRow(devices, t.args.devEui, t.devNew, t))

\* a store that clears the flag of the device's earlier rows
commitUplinksRevised(r, t) ==
  {IF u.dev_eui = t.args.devEui THEN [u EXCEPT !.is_best = FALSE] ELSE u : u \in uplinks}
    \cup {uplinkRow(r, t)}

\* the INSERT INTO uplinks made visible: one more row, the others as they were
commitUplinks(r, t) == uplinks \cup {uplinkRow(r, t)}

\* await client.query('COMMIT'), then release and return to the loop
Commit(r) ==
  /\ pc[r] = "commit"
  /\ \/ /\ gateways' = commitGateways(tx[r])
        /\ devices' = commitDevices(tx[r])
        /\ uplinks' = commitUplinks(r, tx[r])
        /\ inUse' = inUse - 1
        /\ afterStoreSuccess(r, log[r])
        /\ dbFault' = dbFault
     \/ /\ pc' = [pc EXCEPT ![r] = "rollback"]
        /\ Faulted(r)
        /\ UNCHANGED <<gateways, devices, uplinks, inUse, call, tx, log, escaped>>
  /\ UNCHANGED <<fn, now, requests, admitted, refused, req, response, eventType, nextId, nextTx>>

\* a gateway row inserted by a statement outside a transaction would stay
rolledBackGatewaysKept(t) ==
  IF t.open /\ t.gwNew
  THEN MapSet(gateways, t.args.gatewayId,
              [first_seen |-> t.began, last_seen |-> -1, by |-> t.txid])
  ELSE gateways

\* the tables after the transaction ended without COMMIT: as before it
rolledBackGateways(t) == gateways
rolledBackDevices(t) == devices
rolledBackUplinks(t) == uplinks

\* a store whose release is skipped when ROLLBACK itself throws
RollbackLeaks(r) ==
  /\ pc[r] = "rollback"
  /\ gateways' = rolledBackGateways(tx[r])
  /\ devices' = rolledBackDevices(tx[r])
  /\ uplinks' = rolledBackUplinks(tx[r])
  /\ \/ /\ afterStoreFailure(r, Append(log[r], "error:store"))
        /\ inUse' = inUse - 1
        /\ dbFault' = dbFault
     \/ /\ afterStoreFailure(r, log[r])
        /\ inUse' = inUse
        /\ Faulted(r)
  /\ UNCHANGED <<fn, now, requests, admitted, refused, req, response, eventType, nextId, nextTx>>

\* the catch block: await client.query('ROLLBACK'), log, rethrow; finally
\* release.  When ROLLBACK itself fails its error is thrown instead and
\* 'Error storing uplink' is not logged.
Rollback(r) ==
  /\ pc[r] = "rollback"
  /\ gateways' = rolledBackGateways(tx[r])
  /\ devices' = rolledBackDevices(tx[r])
  /\ uplinks' = rolledBackUplinks(tx[r])
  /\ inUse' = inUse - 1
  /\ \/ /\ afterStoreFailure(r, Append(log[r], "error:store"))
        /\ dbFault' = dbFault
     \/ /\ afterStoreFailure(r, log[r])
        /\ Faulted(r)
  /\ UNCHANGED <<fn, now, requests, admitted, refused, req, response, eventType, nextId, nextTx>>

\* the store of a status, join, ack, txack, log or location event, taken as
\* one step: its transaction upserts the device row with last_seen, or fails
Other(r) ==
  /\ pc[r] = "other"
  /\ LET d == req[r].body.devEui.s
     IN \/ /\ ~deviceInsertPending(r, d)
           /\ ~rowLocked(r, "", d)
           /\ devices' = MapSet(devices, d,
                [first_seen |-> IF d \in DOMAIN devices THEN devices[d].first_seen ELSE now,
                 last_seen |-> now,
                 by |-> IF d \in DOMAIN devices THEN devices[d].by ELSE 0])
           /\ pc' = [pc EXCEPT ![r] = "done"]
           /\ UNCHANGED <<log, escaped, dbFault>>
        \/ /\ devices' = devices
           /\ Faulted(r)
           /\ Caught(r, Append(log[r], "error:store"))
  /\ UNCHANGED <<fn, now, requests, admitted, refused, req, response, eventType, call, tx,
                 gateways, uplinks, nextId, nextTx, inUse>>

\* the request is over; its slot takes the next one
Recycle(r) ==
  /\ pc[r] \in {"done", "rejected"}
  /\ pc' = [pc EXCEPT ![r] = "idle"]
  /\ req' = [req EXCEPT ![r] = NoRequest]
  /\ response' = [response EXCEPT ![r] = NoResponse]
  /\ eventType' = [eventType EXCEPT ![r] = ""]
  /\ call' = [call EXCEPT ![r] = NoCall]
  /\ tx' = [tx EXCEPT ![r] = NoTx]
  /\ log' = [log EXCEPT ![r] = <<>>]
  /\ escaped' = [escaped EXCEPT ![r] = FALSE]
  /\ dbFault' = [dbFault EXCEPT ![r] = FALSE]
  /\ UNCHANGED <<fn, now, requests, admitted, refused, gateways, devices, uplinks, nextId, nextTx, inUse>>

(***************************************************************************)
(* Specifications.                                                         *)
(***************************************************************************)
SeqReqs == {1}

\* one request with any payload of the pool, handled alone
Next ==
  \E r \in SeqReqs :
    \/ Receive(r, UplinkRequests \cup OtherRequests)
    \/ RateLimit(r)
    \/ Ack(r)
    \/ Classify(r)
    \/ Dispatch(r)
    \/ GetClient(r)
    \/ Begin(r)
    \/ UpsertGateway(r)
    \/ UpsertDevice(r)
    \/ InsertUplink(r)
    \/ Commit(r)
    \/ Rollback(r)
    \/ Other(r)

Spec == Init /\ [][Next]_vars

\* the deliveries of the concurrent specification: one reception each
ConcRequests ==
  { Request(Addr("ip1", "", ""), QueryStr("up"), NoHeaders, Body(DevEui("d1"), "array", <<rx>>)) :
      rx \in RxPoolSmall }
  \cup
  { Request(Addr("ip1", "", ""), QueryStr("status"), NoHeaders,
            Body(DevEui("d1"), "missing", <<>>)) }

\* requests handled concurrently, their awaits interleaved
NextConc ==
  \E r \in Reqs :
    \/ Receive(r, ConcRequests)
    \/ RateLimit(r)
    \/ Ack(r)
    \/ Classify(r)
    \/ Dispatch(r)
    \/ GetClient(r)
    \/ Begin(r)
    \/ UpsertGateway(r)
    \/ UpsertDevice(r)
    \/ InsertUplink(r)
    \/ Commit(r)
    \/ Rollback(r)
    \/ Other(r)

SpecConc == Init /\ [][NextConc]_vars

\* the deliveries of the limiter specification: nothing is stored for them
LimiterRequests ==
  { Request(a, QueryStr("up"), NoHeaders, NoBody) :
      a \in {Addr("ip1", "", ""), Addr("", "ip2", "")} }

\* a stream of requests from two callers while the clock advances and the
\* sweep timer fires
NextLimiter ==
  \/ Tick
  \/ Cleanup
  \/ \E r \in SeqReqs :
       \/ Receive(r, LimiterRequests)
       \/ RateLimit(r)
       \/ Ack(r)
       \/ Classify(r)
       \/ Dispatch(r)
       \/ Recycle(r)

SpecLimiter == Init /\ [][NextLimiter]_vars

\* deliveries that race on the rows of one device and one gateway: two
\* receptions by g1 with different times, one by g2, and a status event
RaceRequests ==
  { Request(Addr("ip1", "", ""), QueryStr("up"), NoHeaders, Body(DevEui("d1"), "array", <<rx>>)) :
      rx \in { Rx("g1", Fin(-80000), Fin(5000), TimeStr(100)),
               Rx("g1", Fin(-90000), Fin(7000), TimeStr(50)),
               Rx("g2", Fin(-85000), Fin(9000), NoTime) } }
  \cup
  { Request(Addr("ip1", "", ""), QueryStr("status"), NoHeaders,
            Body(DevEui("d1"), "missing", <<>>)) }

RaceReqs == {1, 2}

\* the tables after an earlier reception of d1 by g1, stamped 10, was stored
\* by a transaction numbered 0
EarlierRow ==
  [id |-> 0, dev_eui |-> "d1", gateway_id |-> "g1", timestamp |-> 10,
   rssi |-> Fin(-80000), snr |-> Fin(5000), rf_score |-> Fin(2000), is_best |-> TRUE,
   tx |-> 0, req |-> 0, index |-> 1]
EarlierParent == [first_seen |-> 0, last_seen |-> 10, by |-> 0]

InitRace ==
  /\ now = 0
  /\ requests = <<>>
  /\ admitted = [i \in Identities |-> <<>>]
  /\ refused = [i \in Identities |-> -1]
  /\ pc = [r \in Reqs |-> "idle"]
  /\ req = [r \in Reqs |-> NoRequest]
  /\ response = [r \in Reqs |-> NoResponse]
  /\ eventType = [r \in Reqs |-> ""]
  /\ call = [r \in Reqs |-> NoCall]
  /\ tx = [r \in Reqs |-> NoTx]
  /\ log = [r \in Reqs |-> <<>>]
  /\ escaped = [r \in Reqs |-> FALSE]
  /\ dbFault = [r \in Reqs |-> FALSE]
  /\ gateways = [g \in {"g1"} |-> EarlierParent]
  /\ devices = [d \in {"d1"} |-> EarlierParent]
  /\ uplinks = {EarlierRow}
  /\ nextId = 1
  /\ nextTx = 1
  /\ inUse = 0
  /\ fn = NoFn

\* two requests handled concurrently on the same rows
NextRace ==
  \E r \in RaceReqs :
    \/ Receive(r, RaceRequests)
    \/ RateLimit(r)
    \/ Ack(r)
    \/ Classify(r)
    \/ Dispatch(r)
    \/ GetClient(r)
    \/ Begin(r)
    \/ UpsertGateway(r)
    \/ UpsertDevice(r)
    \/ InsertUplink(r)
    \/ Commit(r)
    \/ Rollback(r)
    \/ Other(r)

SpecRace == InitRace /\ [][NextRace]_vars

\* the deliveries of the quota specification: a storable uplink and a
\* status event
QuotaRequests ==
  { Request(Addr("ip1", "", ""), QueryStr("up"), NoHeaders,
            Body(DevEui("d1"), "array", <<Rx("g1", Fin(-80000), Fin(5000), TimeStr(100))>>)),
    Request(Addr("ip1", "", ""), QueryStr("status"), NoHeaders,
            Body(DevEui("d1"), "missing", <<>>)) }

\* one caller sending events one after the other within one window, until
\* its quota is used up and past it
NextQuota ==
  \E r \in SeqReqs :
    \/ Receive(r, QuotaRequests)
    \/ RateLimit(r)
    \/ Ack(r)
    \/ Classify(r)
    \/ Dispatch(r)
    \/ GetClient(r)
    \/ Begin(r)
    \/ UpsertGateway(r)
    \/ UpsertDevice(r)
    \/ InsertUplink(r)
    \/ Commit(r)
    \/ Rollback(r)
    \/ Other(r)
    \/ Recycle(r)

SpecQuota == Init /\ [][NextQuota]_vars

(***************************************************************************)
(* The utility functions called on their own.                              *)
(***************************************************************************)
allOtherVars ==
  <<now, requests, admitted, refused, pc, req, response, eventType, call, tx, log, escaped,
    dbFault, gateways, devices, uplinks, nextId, nextTx, inUse>>

\* values passed as snr and rssi: numbers in thousandths, the infinities, NaN
\* and a non-number
NumPool ==
  {Fin(v) : v \in {-120000, -80000, -250, 0, 245, 250, 5000, 7500}}
    \cup {PosInf, NegInf, NaN, NotNum}

\* a call calculateRfScore(snr, rssi)
RfScoreCall ==
  \E snr \in NumPool, rssi \in NumPool :
    /\ fn = NoFn
    /\ fn' = [name |-> "calculateRfScore", args |-> <<snr, rssi>>,
              result |-> calculateRfScore(snr, rssi)]
    /\ UNCHANGED allOtherVars

\* requests that name the event in the query, the headers and the body
ClassifierRequests ==
  { Request(Addr("ip1", "", ""), q, [xEventType |-> h1, eventType |-> h2, xChirpstackEvent |-> h3], b) :
      q \in { NoQuery, QueryStr("UP"), QueryStr("{{event}}"), QueryStr(""),
              QueryArr(<<"{{event}}", "uplink">>), QueryArr(<<"{{event}}">>),
              QueryArr(<<"", "up">>) },
      h1 \in {"", "Status"}, h2 \in {"", "join"}, h3 \in {"", "log"},
      b \in { [Body(DevEui("d1"), "missing", <<>>)
                 EXCEPT !.eventType = f1, !.event = f2, !.type = f3] :
                f1 \in {NoField, StrField("Location")},
                f2 \in {NoField, StrField("ack"), ArrField},
                f3 \in {NoField, StrField(""), OtherField, ArrField} }
            \cup {NoBody} }

\* the handler's classification of a request
DetectCall ==
  \E rq \in ClassifierRequests :
    /\ fn = NoFn
    /\ fn' = [name |-> "detectEventType", args |-> <<rq>>, result |-> handlerEventType(rq)]
    /\ UNCHANGED allOtherVars

\* the instants of the calls and the last-seen values passed, in ms
CallTimes == {5000000, 10000000}
LastSeenPool ==
  {NoLastSeen, LastSeenUnparsed}
    \cup {LastSeenAt(t - gap) : t \in CallTimes,
                                gap \in {-60000, 0, 600000, 4499999, 4500000, 4500001, 4800000}}

\* a call calculateUplinkContinuity(lastSeenTimestamp)
ContinuityCall ==
  \E t \in CallTimes, lastSeenTimestamp \in LastSeenPool :
    /\ fn = NoFn
    /\ fn' = [name |-> "calculateUplinkContinuity", args |-> <<lastSeenTimestamp, t>>,
              result |-> calculateUplinkContinuity(lastSeenTimestamp, t)]
    /\ UNCHANGED allOtherVars

\* snr samples, in dB
SnrPool == {-3, 0, 4, 10, 20}
MaxSamples == 3

\* a call calculateStabilityIndex(snrValues)
StabilityCall ==
  \E snrValues \in SeqsUpTo(SnrPool, MaxSamples) :
    /\ fn = NoFn
    /\ fn' = [name |-> "calculateStabilityIndex", args |-> <<snrValues>>,
              result |-> calculateStabilityIndex(snrValues)]
    /\ UNCHANGED allOtherVars

NextPure ==
  \/ RfScoreCall
  \/ DetectCall
  \/ ContinuityCall
  \/ StabilityCall

SpecPure == Init /\ [][NextPure]_vars

(***************************************************************************)
(* Properties.                                                             *)
(***************************************************************************)
InLog(r, tag) == \E k \in 1..Len(log[r]) : log[r][k] = tag

\* the rxInfo list of request r and the indices of its valid items
rxInfoOf(r) == req[r].body.rxInfo
ValidIdx(r) == {i \in 1..Len(rxInfoOf(r)) : rxItemValid(rxInfoOf(r)[i])}
\* the valid items no other valid item exceeds in snr, and the first of them
MaxSnrIdx(r) ==
  {i \in ValidIdx(r) : \A j \in ValidIdx(r) : ~JsGt(rxInfoOf(r)[j].snr, rxInfoOf(r)[i].snr)}
FirstMaxIdx(r) == CHOOSE i \in MaxSnrIdx(r) : \A j \in MaxSnrIdx(r) : i <= j
RowsOf(r) == {u \in uplinks : u.req = r}

C2_LaterEntriesAttempted ==
  \A r \in Reqs :
    pc[r] = "done" /\ Len(call[r].valid) > 0 => call[r].i = Len(call[r].valid)

\* C3: the gateway row, the device row and the uplink row of a store become
\* visible together or not at all: every gateway or device row created by a
\* store has the uplink row of that same store committed, and every uplink
\* row has its gateway and device rows.
C3_StoreAtomic ==
  /\ \A g \in DOMAIN gateways : \E u \in uplinks : u.tx = gateways[g].by
  /\ \A d \in DOMAIN devices :
       devices[d].by # 0 => \E u \in uplinks : u.tx = devices[d].by
  /\ \A u \in uplinks : u.gateway_id \in DOMAIN gateways /\ u.dev_eui \in DOMAIN devices

\* a store that inserted a new gateway in its transaction is being rolled
\* back while another store has committed: the gateway is not visible
C3_Witness ==
  \E r \in Reqs :
    /\ pc[r] = "rollback" /\ tx[r].open /\ tx[r].gwNew
    /\ tx[r].args.gatewayId \notin DOMAIN gateways
    /\ uplinks # {}

\* the admitted requests of an identity with a timestamp not older than t - W
InWindow(id, t) == {j \in 1..Len(admitted[id]) : admitted[id][j] >= t - WindowMs}

\* C4: a call of isAllowed at time now is admitted, and now recorded, iff
\* fewer than maxRequests earlier admitted requests of the identity have a
\* timestamp not older than now - windowMs; otherwise it is rejected and
\* nothing is recorded.
C4_SlidingWindow ==
  [][\A r \in Reqs :
       pc[r] = "limit" /\ pc'[r] # "limit" =>
         LET id == clientIpOf(req[r].addr)
             n == Cardinality(InWindow(id, now))
         IN /\ pc'[r] = "handler" <=> n < MaxRequests
            /\ pc'[r] = "rejected" <=> n >= MaxRequests
            /\ id \in DOMAIN requests'
            /\ pc'[r] = "handler" =>
                 /\ Len(requests'[id]) = n + 1
                 /\ requests'[id][n + 1] = now
            /\ pc'[r] = "rejected" => Len(requests'[id]) = n]_vars

\* maxRequests calls at one instant were admitted, and after more than a
\* window a further call of the identity has just been admitted
C4_Witness ==
  \E r \in Reqs :
    LET id == clientIpOf(req[r].addr)
    IN /\ pc[r] = "handler"
       /\ Len(admitted[id]) = MaxRequests + 1
       /\ admitted[id][MaxRequests] = admitted[id][1]
       /\ admitted[id][MaxRequests + 1] = now
       /\ now > admitted[id][1] + WindowMs

\* C5 as stated: a rejected request gets status 429, the JSON body
\* { error, message, retryAfter } and the three X-RateLimit headers.
C5_RejectionCarriesHeaders ==
  \A r \in Reqs :
    response[r].status = 429 =>
      /\ response[r].body = "json"
      /\ response[r].error # "" /\ response[r].message # ""
      /\ response[r].retryAfter = retryAfterOf
      /\ {"X-RateLimit-Limit", "X-RateLimit-Remaining", "X-RateLimit-Reset"}
           \subseteq {h[1] : h \in response[r].headers}

\* what holds of a request once the handler is past its first statement
C6_AckFirst ==
  \A r \in Reqs :
    /\ pc[r] \in {"classify", "dispatch", "getClient", "begin", "upsertGateway",
                  "upsertDevice", "insert", "commit", "rollback", "other", "done"}
         => response[r].sent /\ response[r].status = 200 /\ response[r].body = "empty"
    /\ (eventType[r] # "" \/ call[r] # NoCall \/ tx[r] # NoTx \/ log[r] # <<>>
          \/ RowsOf(r) # {})
         => response[r].sent /\ response[r].status = 200
    /\ ~escaped[r]
    /\ (pc[r] = "done" /\ Cardinality(RowsOf(r)) < Len(call[r].valid))
         => InLog(r, "error:webhook")

\* C6: an admitted request is answered 200 with an empty body before it is
\* classified, dispatched or stored; what was sent never changes afterwards;
\* no exception leaves the handler, and a failed store ends in a log entry.
C6_AckThenProcess ==
  /\ []C6_AckFirst
  /\ [][\A r \in Reqs : response[r].sent => response'[r] = response[r]]_vars

\* a store failed, the error was logged, and the caller had its 200
C6_Witness ==
  \E r \in Reqs :
    /\ pc[r] = "done" /\ InLog(r, "error:webhook") /\ dbFault[r]
    /\ response[r].status = 200 /\ response[r].body = "empty"

\* the whole payload is one processUplink returns on without storing
RejectedAsWhole(body) ==
  \/ ~body.isObject
  \/ body.devEui.k # "str" \/ body.devEui.s = ""
  \/ body.rxKind # "array" \/ Len(body.rxInfo) = 0

\* an rxInfo item with a gateway id and finite rssi and snr
FiniteItem(rxItem) ==
  /\ rxItem.obj /\ rxItem.gwStr /\ rxItem.gatewayId # ""
  /\ rxItem.rssi.k = "fin" /\ rxItem.snr.k = "fin"

\* C7 as stated: when the handling of an uplink is over and no statement
\* failed for an outside reason, exactly the items with a gateway id and
\* finite rssi and snr have been stored: the others were dropped and kept
\* no other item from being stored.
C7_InvalidDroppedOthersStored ==
  \A r \in Reqs :
    (/\ pc[r] = "done" /\ ~dbFault[r]
     /\ dispatchTarget(eventType[r]) = "uplink"
     /\ ~RejectedAsWhole(req[r].body))
    => \A i \in 1..Len(rxInfoOf(r)) :
         FiniteItem(rxInfoOf(r)[i]) <=> \E u \in uplinks : u.req = r /\ u.index = i

\* C8: a payload that is rejected as a whole, or that holds no valid item,
\* leads to no database operation: no client is acquired, no transaction
\* opened, no row written, and no exception leaves the handler.
C8_RejectedPayloadNoDb ==
  \A r \in Reqs :
    (/\ req[r] # NoRequest
     /\ dispatchTarget(handlerEventType(req[r])) = "uplink"
     /\ \/ RejectedAsWhole(req[r].body)
        \/ \A i \in 1..Len(rxInfoOf(r)) :
             LET x == rxInfoOf(r)[i]
             IN ~(x.obj /\ x.gwStr /\ x.gatewayId # ""
                  /\ x.rssi.k \in {"fin", "inf"} /\ x.snr.k \in {"fin", "inf"}))
    => /\ tx[r] = NoTx /\ call[r] = NoCall
       /\ pc[r] \in {"limit", "rejected", "handler", "classify", "dispatch", "done"}
       /\ ~escaped[r] /\ ~dbFault[r]
       /\ inUse = 0 /\ nextId = 1 /\ nextTx = 1
       /\ gateways = <<>> /\ devices = <<>> /\ uplinks = {}

\* a payload with an empty rxInfo list was handled: a warning, nothing else
C8_Witness ==
  \E r \in Reqs :
    /\ pc[r] = "done"
    /\ req[r].body.isObject /\ req[r].body.devEui = DevEui("d1")
    /\ req[r].body.rxKind = "array" /\ Len(rxInfoOf(r)) = 0
    /\ InLog(r, "warn:payload")
    /\ uplinks = {} /\ inUse = 0

\* C9 as stated: the rf_score of every stored reception is the threshold
\* score of its snr and rssi, one of 40, 70 and 100.
C9_ThresholdScoreStored ==
  \A u \in uplinks :
    /\ u.rf_score \in {Fin(40000), Fin(70000), Fin(100000)}
    /\ u.rf_score = calculateHealthScore(rxInfoOf(u.req)[u.index].snr,
                                         rxInfoOf(u.req)[u.index].rssi)

\* C10 as stated: the score recomputed from the stored rssi and snr of a
\* row is the stored rf_score.
C10_RecomputedFromStored ==
  \A u \in uplinks : calculateRfScore(u.snr, u.rssi).score = u.rf_score

\* C11 as stated: calculateRfScore returns an integer when both arguments
\* are finite numbers and fails with an error, returning no score, when
\* either is NaN, an infinity or not a number.
C11_IntegerOrInvalidInput ==
  fn.name = "calculateRfScore" =>
    LET snr == fn.args[1]
        rssi == fn.args[2]
    IN IF snr.k = "fin" /\ rssi.k = "fin"
       THEN /\ ~fn.result.threw
            /\ fn.result.score.k = "fin" /\ fn.result.score.v % 1000 = 0
       ELSE fn.result.threw

\* C12: every uplink row, committed or inserted in a transaction still
\* open, has its gateway row and its device row: each exists in the tables
\* or was inserted earlier in the same transaction, and a transaction
\* reaches its uplink insert only after both upserts, under any
\* interleaving of concurrent stores.
C12_ReferencesExist ==
  /\ \A u \in uplinks :
       u.gateway_id \in DOMAIN gateways /\ u.dev_eui \in DOMAIN devices
  /\ \A r \in Reqs :
       pc[r] \in {"insert", "commit"} =>
         /\ tx[r].open
         /\ tx[r].gwNew \/ tx[r].args.gatewayId \in DOMAIN gateways
         /\ tx[r].devNew \/ tx[r].args.devEui \in DOMAIN devices

\* a transaction holds an uplink row for a gateway only it has inserted,
\* while the tables hold the committed rows of another store
C12_Witness ==
  \E r \in Reqs :
    /\ pc[r] = "commit" /\ tx[r].hasRow /\ tx[r].gwNew
    /\ tx[r].args.gatewayId \notin DOMAIN gateways
    /\ tx[r].args.devEui \in DOMAIN devices /\ ~tx[r].devNew
    /\ uplinks # {}

\* the value a source of the event type yields, "" when it yields none
RECURSIVE FirstNonPlaceholder(_)
FirstNonPlaceholder(a) ==
  IF a = <<>> THEN ""
  ELSE IF a[1] # "{{event}}" THEN a[1]
  ELSE FirstNonPlaceholder(Tail(a))
QueryValue(q) ==
  IF q.k = "str" THEN q.s ELSE IF q.k = "arr" THEN FirstNonPlaceholder(q.a) ELSE ""
RECURSIVE FirstNonEmpty(_)
FirstNonEmpty(a) ==
  IF a = <<>> THEN "" ELSE IF a[1] # "" THEN a[1] ELSE FirstNonEmpty(Tail(a))
HeaderValue(h) == FirstNonEmpty(<<h.xEventType, h.eventType, h.xChirpstackEvent>>)
BodyValue(b) ==
  IF b.isObject THEN FirstNonEmpty(<<b.eventType.s, b.event.s, b.type.s>>) ELSE ""
FirstMatch(rq) ==
  FirstNonEmpty(<<QueryValue(rq.query), HeaderValue(rq.headers), BodyValue(rq.body), "unknown">>)

\* C13 as stated: the tag the classifier gives a request is lowercase and
\* is the lowercase form of the first value found in the order query
\* parameter, headers x-event-type, event-type, x-chirpstack-event, body
\* fields eventType, event, type, and "unknown" when none has a value.
C13_FirstMatchLowercase ==
  fn.name = "detectEventType" =>
    /\ fn.result = toLowerCase(FirstMatch(fn.args[1]))
    /\ fn.result # "UP" /\ fn.result # "Status" /\ fn.result # "Location"

\* C14 as stated: a last-seen timestamp is ONLINE iff now - lastSeen is
\* strictly below 75 minutes and OFFLINE otherwise, a gap of exactly 75
\* minutes included; an absent timestamp is UNKNOWN.
C14_OnlineStrictlyBelow ==
  fn.name = "calculateUplinkContinuity" =>
    LET lastSeen == fn.args[1]
        gap == fn.args[2] - lastSeen.ms
    IN /\ lastSeen.k = "none" => fn.result = "UNKNOWN"
       /\ lastSeen.k = "date" =>
            fn.result = (IF gap < 75 * 60 * 1000 THEN "ONLINE" ELSE "OFFLINE")

\* C14 amended: an absent timestamp is UNKNOWN; a timestamp is OFFLINE iff
\* it parses to a date and now - lastSeen is strictly above 75 minutes, and
\* ONLINE otherwise: a gap of exactly 75 minutes, a date in the future and
\* a value that does not parse to a date are all ONLINE.
C14_OfflineStrictlyAbove ==
  fn.name = "calculateUplinkContinuity" =>
    LET lastSeen == fn.args[1]
        gap == fn.args[2] - lastSeen.ms
    IN fn.result =
         (IF lastSeen.k = "none" THEN "UNKNOWN"
          ELSE IF lastSeen.k = "date" /\ gap > 75 * 60 * 1000 THEN "OFFLINE"
          ELSE "ONLINE")

\* a timestamp exactly 75 minutes old has been classified ONLINE
C14_Witness ==
  /\ fn.name = "calculateUplinkContinuity"
  /\ fn.args[1].k = "date" /\ fn.args[2] - fn.args[1].ms = 75 * 60 * 1000
  /\ fn.result = "ONLINE"

\* sum of x and of x^2 over a sample
RECURSIVE SumOf(_, _)
SumOf(x, i) == IF i > Len(x) THEN 0 ELSE x[i] + SumOf(x, i + 1)
RECURSIVE SumSqOf(_, _)
SumSqOf(x, i) == IF i > Len(x) THEN 0 ELSE x[i] * x[i] + SumSqOf(x, i + 1)
\* n^2 times the population variance: n * sum(x^2) - (sum x)^2
ScaledVariance(x) == Len(x) * SumSqOf(x, 1) - SumOf(x, 1) * SumOf(x, 1)

\* C15: calculateStabilityIndex gives UNKNOWN for an empty sample and
\* otherwise classifies by the population standard deviation s of the
\* sample: STABLE iff s <= 2, UNSTABLE iff 2 < s <= 5, VERY_UNSTABLE iff
\* s > 5.
C15_PopulationStdDevClasses ==
  fn.name = "calculateStabilityIndex" =>
    LET x == fn.args[1]
        n == Len(x)
    IN fn.result =
         (IF n = 0 THEN "UNKNOWN"
          ELSE IF ScaledVariance(x) <= 4 * n * n THEN "STABLE"
          ELSE IF ScaledVariance(x) <= 25 * n * n THEN "UNSTABLE"
          ELSE "VERY_UNSTABLE")

\* the sample [0, 4], whose population deviation is exactly 2 and whose
\* sample deviation is above 2, has been classified STABLE
C15_Witness ==
  /\ fn.name = "calculateStabilityIndex"
  /\ fn.args[1] = <<0, 4>>
  /\ fn.result = "STABLE"

\* the columns of an uplinks row other than its id
ContentOf(u) ==
  <<u.dev_eui, u.gateway_id, u.timestamp, u.rssi, u.snr, u.rf_score, u.is_best>>

\* request r carried an uplink whose items all have finite values, and no
\* statement of its stores failed for an outside reason
DeliveredClean(r) ==
  /\ pc[r] = "done" /\ ~dbFault[r]
  /\ dispatchTarget(eventType[r]) = "uplink"
  /\ ~RejectedAsWhole(req[r].body)
  /\ \A i \in 1..Len(rxInfoOf(r)) : FiniteItem(rxInfoOf(r)[i])

\* C16: two deliveries of the same uplink payload commit two uplink rows
\* with the same content and distinct ids: the second is neither refused
\* nor merged; no two rows share an id, and the gateway and the device keep
\* the single row the first store created.
C16_RedeliveryDuplicates ==
  /\ \A u, w \in uplinks : u.id = w.id => u = w
  /\ \A r1, r2 \in Reqs :
       (r1 # r2 /\ req[r1] = req[r2] /\ DeliveredClean(r1) /\ DeliveredClean(r2))
       => \A i \in 1..Len(rxInfoOf(r1)) :
            \E u \in RowsOf(r1), w \in RowsOf(r2) :
              /\ u.index = i /\ w.index = i
              /\ ContentOf(u) = ContentOf(w)
              /\ u.id # w.id
              /\ u.gateway_id \in DOMAIN gateways /\ u.dev_eui \in DOMAIN devices

\* the same payload was delivered twice and both stores committed
C16_Witness ==
  \E r1, r2 \in Reqs :
    /\ r1 # r2 /\ req[r1] = req[r2] /\ DeliveredClean(r1) /\ DeliveredClean(r2)
    /\ \E u \in RowsOf(r1), w \in RowsOf(r2) :
         ContentOf(u) = ContentOf(w) /\ u.id # w.id /\ u.timestamp = 100

\* no statement of the stores of request r failed
NoStoreFailed(r) == ~dbFault[r] /\ ~InLog(r, "error:store") /\ ~InLog(r, "error:webhook")

\* the valid items of request r name pairwise distinct gateways
DistinctGateways(r) ==
  \A i, j \in ValidIdx(r) :
    rxInfoOf(r)[i].gatewayId = rxInfoOf(r)[j].gatewayId => i = j

Holders == {r \in Reqs : tx[r].client}
InFlight == {r \in Reqs : pc[r] \notin {"idle", "rejected", "done"}}

RECURSIVE Recent(_, _)
Recent(list, t) ==
  IF list = <<>> THEN <<>>
  ELSE IF Head(list) >= t - WindowMs THEN <<Head(list)>> \o Recent(Tail(list), t)
  ELSE Recent(Tail(list), t)

\* C19: a sweep leaves exactly the identities that have a request inside
\* the current window, each with exactly its timestamps not older than
\* now - window: afterwards no identity maps to an empty list and no
\* timestamp older than the window is kept.
C19_SweepEvictsIdle ==
  [][Cleanup =>
       /\ DOMAIN requests' = {id \in DOMAIN requests : Recent(requests[id], now) # <<>>}
       /\ \A id \in DOMAIN requests' :
            /\ requests'[id] = Recent(requests[id], now)
            /\ Len(requests'[id]) > 0
            /\ \A j \in 1..Len(requests'[id]) : requests'[id][j] >= now - WindowMs]_vars

\* an identity admitted earlier is no longer tracked while another one,
\* active inside the window, still is
C19_Witness ==
  \E id, other \in Identities :
    /\ admitted[id] # <<>> /\ id \notin DOMAIN requests
    /\ other \in DOMAIN requests /\ requests[other] # <<>>
    /\ requests[other][1] >= now - WindowMs

\* the list the limiter holds for an identity, empty when it holds none
Tracked(id) == IF id \in DOMAIN requests THEN requests[id] ELSE <<>>

\* C20: whatever the order of the admissions, rejections, clock ticks and
\* sweeps, the list of every identity is in non-decreasing time order, has
\* at most maxRequests entries, and its timestamps inside the window are
\* exactly the timestamps of the identity's admitted requests inside the
\* window: none is lost and none is added.
C20_ListsOrderedBoundedComplete ==
  \A id \in Identities :
    /\ \A i, j \in 1..Len(Tracked(id)) : i <= j => Tracked(id)[i] <= Tracked(id)[j]
    /\ Len(Tracked(id)) <= MaxRequests
    /\ Recent(Tracked(id), now) = Recent(admitted[id], now)

\* a call is rejected on a full list with two different timestamps, older
\* admissions of the identity having been dropped
C20_Witness ==
  \E r \in Reqs :
    LET id == clientIpOf(req[r].addr)
    IN /\ pc[r] = "rejected"
       /\ Len(Tracked(id)) = MaxRequests
       /\ Tracked(id)[1] < Tracked(id)[MaxRequests]
       /\ Len(admitted[id]) > MaxRequests

\* the statement request r is about to issue has to wait for transaction o
WaitsFor(r, o) ==
  /\ o # r /\ tx[o].open
  /\ \/ pc[r] = "upsertGateway" /\ tx[o].gwNew /\ tx[o].args.gatewayId = tx[r].args.gatewayId
     \/ pc[r] = "upsertDevice" /\ tx[o].devNew /\ tx[o].args.devEui = tx[r].args.devEui
     \/ /\ pc[r] = "insert" /\ tx[o].hasRow
        /\ \/ tx[o].args.gatewayId = tx[r].args.gatewayId
           \/ tx[o].args.devEui = tx[r].args.devEui
Waiting(r) == \E o \in Reqs : WaitsFor(r, o)

\* the row of the set S inserted last: the one with the highest id
LastRow(S) == CHOOSE u \in S : \A w \in S : w.id <= u.id

\* C21: two uplinks for the same device and gateway handled concurrently
\* without an outside failure both commit their row, and the last_seen of
\* the gateway and of the device is the timestamp of the row written last;
\* a transaction only ever waits for one that is itself not waiting, so no
\* two transactions wait for each other.
C21_ConcurrentSameRows ==
  /\ \A r, o \in Reqs : WaitsFor(r, o) => ~Waiting(o)
  /\ \A r1, r2 \in Reqs :
       (/\ r1 # r2 /\ DeliveredClean(r1) /\ DeliveredClean(r2)
        /\ \A o \in Reqs \ {r1, r2} : pc[o] = "idle"
        /\ Len(rxInfoOf(r1)) = 1 /\ Len(rxInfoOf(r2)) = 1
        /\ rxInfoOf(r1)[1].gatewayId = rxInfoOf(r2)[1].gatewayId
        /\ req[r1].body.devEui = req[r2].body.devEui)
       => /\ Cardinality(RowsOf(r1)) = 1 /\ Cardinality(RowsOf(r2)) = 1
          /\ gateways[rxInfoOf(r1)[1].gatewayId].last_seen = LastRow(uplinks).timestamp
          /\ devices[req[r1].body.devEui.s].last_seen = LastRow(uplinks).timestamp

\* two overlapping transactions on the same gateway and device committed:
\* the one begun later inserted first, and last_seen is the timestamp of
\* the other, which wrote last
C21_Witness ==
  \E u, w \in uplinks :
    /\ u.gateway_id = w.gateway_id /\ u.dev_eui = w.dev_eui
    /\ u.req # 0 /\ w.req # 0
    /\ u.id < w.id /\ u.tx > w.tx
    /\ u.timestamp # w.timestamp
    /\ \A r \in Reqs : pc[r] \in {"idle", "done"}
    /\ gateways[w.gateway_id].last_seen = w.timestamp
    /\ devices[w.dev_eui].last_seen = w.timestamp

\* C22: the commit of a store for gateway g and device d with timestamp t
\* leaves g.last_seen = t and d.last_seen = t, whatever they were, creates
\* the rows that did not exist and leaves the first_seen of the rows that
\* did unchanged.
C22_LastSeenRefreshed ==
  [][\A r \in Reqs :
       (pc[r] = "commit" /\ pc'[r] # "commit" /\ uplinks' # uplinks) =>
         LET g == tx[r].args.gatewayId
             d == tx[r].args.devEui
             t == tx[r].args.timestamp
         IN /\ g \in DOMAIN gateways' /\ gateways'[g].last_seen = t
            /\ d \in DOMAIN devices' /\ devices'[d].last_seen = t
            /\ g \in DOMAIN gateways => gateways'[g].first_seen = gateways[g].first_seen
            /\ d \in DOMAIN devices => devices'[d].first_seen = devices[d].first_seen
            /\ \A k \in DOMAIN gateways \ {g} : gateways'[k] = gateways[k]]_vars

\* a reception stamped earlier than one already stored was committed after
\* it: last_seen of its gateway and device moved backwards
C22_Witness ==
  \E u, w \in uplinks :
    /\ u.gateway_id = w.gateway_id /\ u.dev_eui = w.dev_eui
    /\ u.id < w.id /\ w.timestamp < u.timestamp
    /\ \A r \in Reqs : pc[r] \in {"idle", "done"}
    /\ gateways[w.gateway_id].last_seen = w.timestamp
    /\ devices[w.dev_eui].last_seen = w.timestamp
    /\ gateways[w.gateway_id].first_seen = 0

Parseable(time) == time.k = "str" /\ time.ok

\* C24: a stored row carries its item's time when that is a parseable
\* string and the time of processing otherwise; an item whose time is
\* missing, unparseable or of another type is stored like any other: when
\* no store of the request failed, every valid item has its row.
C24_TimestampOrNow ==
  \A r \in SeqReqs :
    /\ \A u \in RowsOf(r) :
         LET time == rxInfoOf(r)[u.index].time
         IN /\ Parseable(time) => u.timestamp = time.t
            /\ ~Parseable(time) => u.timestamp = now
    /\ (pc[r] = "done" /\ NoStoreFailed(r) /\ dispatchTarget(eventType[r]) = "uplink"
        /\ ~RejectedAsWhole(req[r].body))
       => \A i \in ValidIdx(r) : \E u \in RowsOf(r) : u.index = i

\* three items, with a parseable time, an unparseable string and a time of
\* another type, are all stored, the first stamped with its own time
C24_Witness ==
  \E r \in SeqReqs :
    /\ pc[r] = "done" /\ InLog(r, "warn:timestamp")
    /\ \E u, v, w \in RowsOf(r) :
         /\ rxInfoOf(r)[u.index].time = TimeStr(100) /\ u.timestamp = 100
         /\ rxInfoOf(r)[v.index].time = BadTimeStr /\ v.timestamp = now
         /\ rxInfoOf(r)[w.index].time = OtherTime /\ w.timestamp = now

\* the route handler of request r has been entered
Past(r) == pc[r] \notin {"idle", "limit", "rejected"}

\* C25: the limiter is consulted first.  The route handler is entered only
\* from the middleware and only when isAllowed returned true; a request the
\* limiter refused goes nowhere but to its end, is never classified,
\* dispatched or processed and holds no transaction, and the step that
\* refuses it writes nothing to the database; the tables change only in a
\* store of a request that was let through.
C25_LimiterFirst ==
  [][\A r \in Reqs :
       /\ (Past(r)' /\ ~Past(r)) =>
            /\ pc[r] = "limit" /\ pc'[r] = "handler"
            /\ isAllowed(requests, clientIpOf(req[r].addr), now).allowed
       /\ pc[r] = "rejected" => pc'[r] \in {"rejected", "idle"}
       /\ pc'[r] = "rejected" =>
            /\ eventType'[r] = "" /\ call'[r] = NoCall /\ tx'[r] = NoTx
            /\ log'[r] = <<>> /\ response'[r].status = 429
       /\ (pc[r] = "limit" /\ pc'[r] = "rejected") =>
            /\ ~isAllowed(requests, clientIpOf(req[r].addr), now).allowed
            /\ UNCHANGED <<gateways, devices, uplinks, nextId, nextTx, inUse>>
       /\ <<gateways, devices, uplinks>>' # <<gateways, devices, uplinks>> =>
            \E o \in Reqs : Past(o) /\ pc[o] \in {"commit", "other"}]_vars

\* after the quota of storable uplinks was used and stored, one more was
\* refused: it has no event type, no call and no transaction, and the table
\* holds the rows of the admitted ones only
C25_Witness ==
  \E r \in Reqs :
    /\ pc[r] = "rejected" /\ response[r].status = 429
    /\ eventType[r] = "" /\ call[r] = NoCall /\ tx[r] = NoTx
    /\ Cardinality(uplinks) = MaxRequests
    /\ Len(admitted[clientIpOf(req[r].addr)]) = MaxRequests

\* C26 as stated: a caller refused at time t that sends nothing until
\* t + retryAfter seconds is admitted on its first request at or after that
\* time.
C26_RetryAfterHonoured ==
  [][\A r \in Reqs :
       LET id == clientIpOf(req[r].addr)
       IN (/\ pc[r] = "limit" /\ pc'[r] # "limit"
           /\ refused[id] >= 0
           /\ now >= refused[id] + retryAfterOf * 1000)
          => pc'[r] = "handler"]_vars

\* the limiter's map had neither cleanup nor getRemaining ever run: every
\* identity that was admitted keeps all its timestamps until isAllowed
\* drops them
Untouched == [id \in {i \in Identities : admitted[i] # <<>>} |-> admitted[id]]

\* the times of the calls to come
TimesToCome == {now + k * TickMs : k \in 0..(MaxTime \div TickMs)}

\* C27: cleanup and getRemaining are transparent to admission: in every
\* state, after any interleaving of sweeps and getRemaining calls with the
\* requests, a call of isAllowed for any identity, now or at any later
\* time, gives the result it would give had neither ever run.
C27_SweepAndRemainingTransparent ==
  \A id \in Identities, t \in TimesToCome :
    isAllowed(requests, id, t).allowed = isAllowed(Untouched, id, t).allowed

\* one identity admitted earlier has been swept from the map, another has
\* lost old timestamps and is at its limit: its next call is refused, as it
\* would be with all timestamps kept
C27_Witness ==
  \E id, other \in Identities :
    /\ admitted[other] # <<>> /\ other \notin DOMAIN requests
    /\ id \in DOMAIN requests /\ requests[id] # admitted[id]
    /\ ~isAllowed(requests, id, now).allowed
    /\ ~isAllowed(Untouched, id, now).allowed

\* C28: a refused request consumes no quota: the call that refuses leaves
\* the caller's list as it was but for the timestamps older than the
\* window, appends nothing, and changes the result of no later call; and
\* the middleware's calls of isAllowed and getRemaining for one identity
\* leave the list of every other identity, tracked or not, as it was.
C28_RefusalFreeOthersUntouched ==
  [][\A r \in Reqs :
       (pc[r] = "limit" /\ pc'[r] # "limit") =>
         LET id == clientIpOf(req[r].addr)
         IN /\ \A o \in Identities \ {id} :
                 /\ o \in DOMAIN requests' <=> o \in DOMAIN requests
                 /\ o \in DOMAIN requests => requests'[o] = requests[o]
            /\ pc'[r] = "rejected" =>
                 /\ id \in DOMAIN requests
                 /\ requests'[id] = dropOld(requests[id], now - WindowMs)
                 /\ admitted' = admitted
                 /\ \A t \in TimesToCome :
                      isAllowed(requests', id, t) = isAllowed(requests, id, t)]_vars

\* a caller at its limit has just been refused: its list still holds
\* maxRequests timestamps, and the list of another caller still holds a
\* timestamp older than the window
C28_Witness ==
  \E r \in Reqs, other \in Identities :
    LET id == clientIpOf(req[r].addr)
    IN /\ pc[r] = "rejected" /\ refused[id] = now
       /\ Len(requests[id]) = MaxRequests
       /\ other # id /\ other \in DOMAIN requests
       /\ requests[other] # <<>> /\ requests[other][1] < now - WindowMs

\* the valid items of the call of request r that the store loop flags
Flagged(r) ==
  {i \in 1..Len(call[r].valid) : storeArgs(req[r].body, call[r].valid, i, now).isBest}

Stored(r) ==
  {k \in 1..Len(call[r].valid) : \E u \in RowsOf(r) : u.index = call[r].valid[k].index}

\* C30: the committed rows of a payload are exactly a prefix, in input
\* order, of its valid items: with the loop at item i the items before i
\* have one row each, inserted in input order, and no item after i has
\* one; the loop ends before the last item only when the store of item i
\* failed, and then no later store is attempted.
C30_RowsArePrefix ==
  \A r \in SeqReqs :
    Len(call[r].valid) > 0 =>
      LET i == call[r].i
      IN /\ \A u \in RowsOf(r) :
              \E k \in 1..Len(call[r].valid) : call[r].valid[k].index = u.index
         /\ Cardinality(RowsOf(r)) = Cardinality(Stored(r))
         /\ Stored(r) \in {1..(i - 1), 1..i}
         /\ pc[r] # "done" => Stored(r) = 1..(i - 1)
         /\ (pc[r] = "done" /\ i < Len(call[r].valid)) =>
              /\ Stored(r) = 1..(i - 1)
              /\ tx[r] = NoTx
         /\ \A u, w \in RowsOf(r) : u.index < w.index => u.id < w.id

\* the store of the second of three storable items failed: the first has
\* its row, the second and the third have none and the handling is over
C30_Witness ==
  \E r \in SeqReqs :
    /\ pc[r] = "done" /\ Len(call[r].valid) = 3 /\ call[r].i = 2
    /\ Stored(r) = {1} /\ Cardinality(RowsOf(r)) = 1
    /\ \A k \in 1..3 : call[r].valid[k].snr.k = "fin" /\ call[r].valid[k].rssi.k = "fin"

=============================================================================
